---- MODULE Spec2Model ----
(***************************************************************************)
(* Model of the data pipeline of app.py: the cached per-city fetch         *)
(* (fetch_city_hourly under st.cache_data(ttl=300)), the refresh button,   *)
(* the fetch loop over the selected cities, the no-data guard, the merge   *)
(* (pd.concat + sort_values) and the latest-snapshot table.                *)
(*                                                                         *)
(* One execution of the script is one run.  A run is started by a user     *)
(* interaction that fixes the widget values (selected_cities, days_back,   *)
(* refresh); the cache outlives the runs.  The wall clock advances between *)
(* any two steps.                                                          *)
(*                                                                         *)
(* A DataFrame is a sequence of rows [city, time, temp]; the windspeed and *)
(* winddirection columns are carried row-aligned with temp and are not     *)
(* represented.  Latitudes and longitudes are scaled by 10^4.              *)
(***************************************************************************)
EXTENDS Integers, Sequences, FiniteSets, TLC

\* ---------------------------------------------------------------- bounds
MaxClock == 300      \* the wall clock is observed up to this second
MaxRows == 2         \* longest hourly array the provider returns
MaxHour == 2         \* hourly timestamps are 1..MaxHour
MaxTemp == 2         \* temperatures are 1..MaxTemp

\* ------------------------------------------------------ program constants
TTL == 300

CityOrder == <<"Riyadh", "Jeddah", "Dammam", "Abha">>

CITIES ==
    [Riyadh |-> [lat |-> 247136, lon |-> 466753],
     Jeddah |-> [lat |-> 214858, lon |-> 391925],
     Dammam |-> [lat |-> 263927, lon |-> 499777],
     Abha   |-> [lat |-> 182465, lon |-> 425117]]

\* Position of a city name in the alphabetical order of the names
\* (Python string comparison on these four names).
NameRank == [Abha |-> 1, Dammam |-> 2, Jeddah |-> 3, Riyadh |-> 4]

Cities == {CityOrder[n] : n \in DOMAIN CityOrder}

\* The three options of the "Time window" selectbox.
DaysOptions == {0, 1, 3}

\* The sessions explored.  Two follow the cache over time and across runs,
\* with hourly series of at most one value: two cities under one time
\* window, one city under two time windows.  The third follows the merge in
\* detail, with full hourly series, for a user who clicks the refresh button
\* on every rerun, all within one second.
Scopes ==
    {[cities |-> {"Riyadh", "Jeddah"}, days |-> {0}, detail |-> FALSE],
     [cities |-> {"Riyadh"}, days |-> {0, 1}, detail |-> FALSE],
     [cities |-> {"Riyadh", "Jeddah"}, days |-> {0}, detail |-> TRUE]}

\* The multiselect returns the chosen options, each once, in the order chosen.
Selections(cs) ==
    {s \in UNION {[1..n -> cs] : n \in 0..Cardinality(cs)} :
        \A a, b \in DOMAIN s : a # b => s[a] # s[b]}

\* --------------------------------------------------------------- provider
\* Strictly increasing hourly timestamps, as the provider's hourly series.
TimeArrays(len) ==
    {s \in UNION {[1..n -> 1..MaxHour] : n \in 0..len} :
        \A a, b \in DOMAIN s : a < b => s[a] < s[b]}

TempArrays(len, top) == UNION {[1..n -> 1..top] : n \in 0..len}

\* What one HTTP GET can produce: requests.get raising (no connection, or
\* no answer within the timeout), a non-success status, a body without an
\* hourly object, or a body with the parallel arrays (the temperature array
\* possibly one value short).
HttpResponses(detail) ==
    LET len == IF detail THEN MaxRows ELSE 1
        top == IF detail THEN MaxTemp ELSE 1
    IN  {[status |-> st, hourly |-> FALSE, time |-> <<>>, temperature_2m |-> <<>>] :
            st \in {"ConnectionError", "HTTPError", "ok"}}
        \cup
        UNION {{[status |-> "ok", hourly |-> TRUE, time |-> ts, temperature_2m |-> tp] :
                   tp \in {x \in TempArrays(len, top) : Len(x) = Len(ts)}} :
               ts \in TimeArrays(len)}
        \cup
        {[status |-> "ok", hourly |-> TRUE, time |-> ts,
          temperature_2m |-> [n \in 1..(Len(ts) - 1) |-> 1]] :
            ts \in {x \in TimeArrays(len) : x # <<>>}}

NoError == "none"

\* Body of fetch_city_hourly: the exception it raises (NoError if none) and
\* the DataFrame it returns.
FetchCityHourly(city_name, resp) ==
    IF resp.status # "ok"
    THEN [err |-> resp.status, rows |-> <<>>]
    ELSE IF ~resp.hourly
    THEN [err |-> NoError, rows |-> <<>>]
    ELSE IF Len(resp.time) # Len(resp.temperature_2m)
    THEN [err |-> "ValueError", rows |-> <<>>]
    ELSE [err |-> NoError,
          rows |-> [n \in 1..Len(resp.time) |->
                      [city |-> city_name,
                       time |-> resp.time[n],
                       temp |-> resp.temperature_2m[n]]]]

\* ------------------------------------------------------------------ cache
\* st.cache_data keys an entry by the arguments of the call.
CacheKey(city_name, days) ==
    [city |-> city_name,
     lat  |-> CITIES[city_name].lat,
     lon  |-> CITIES[city_name].lon,
     days |-> days]

Keys == {CacheKey(c, d) : c \in Cities, d \in DaysOptions}

\* Faulty variants: the ttl taken as 5 (minutes written as seconds); an
\* entry still served at the very second its ttl has elapsed.
LiveFiveSeconds(e, t) == t - e.createdAt < 5

LiveInclusive(e, t) == t - e.createdAt <= TTL

\* An entry is served while less than ttl seconds have passed since it
\* was stored.
Live(e, t) == t - e.createdAt < TTL

Lookup(c, k, t) == {e \in c : e.key = k /\ Live(e, t)}

\* Storing a result replaces whatever entry the key had.
Store(c, k, rows, t) ==
    {e \in c : e.key # k} \cup {[key |-> k, value |-> rows, createdAt |-> t]}

\* Faulty variant: the outcome is stored even when the function raised.
CacheAfterAlways(c, k, res, t) == Store(c, k, res.rows, t)

\* The cache after the wrapped function returned or raised.
CacheAfter(c, k, res, t) ==
    IF res.err = NoError THEN Store(c, k, res.rows, t) ELSE c

\* One call of the cached function at time t; resp is what the provider
\* would answer if asked.
GetOrFetch(c, city_name, days, t, resp) ==
    LET k   == CacheKey(city_name, days)
        hit == Lookup(c, k, t)
    IN  IF hit # {}
        THEN LET e == CHOOSE x \in hit : TRUE
             IN  [networked |-> FALSE, err |-> NoError, rows |-> e.value,
                  cache |-> c]
        ELSE LET res == FetchCityHourly(city_name, resp)
             IN  [networked |-> TRUE, err |-> res.err, rows |-> res.rows,
                  cache |-> CacheAfter(c, k, res, t)]

\* Faulty variant: clear referenced but not called.
ClearNotCalled(c) == c

\* fetch_city_hourly.clear()
Clear(c) == {}

\* ------------------------------------------------------------- aggregator
RECURSIVE Concat(_)
Concat(dfs) == IF dfs = <<>> THEN <<>> ELSE Head(dfs) \o Concat(Tail(dfs))

\* The orders sort_values(col) can leave the rows in: ascending in the
\* column; the default sort kind does not fix the order of equal keys.
RECURSIVE SortedOrders(_, _, _)
SortedOrders(d, idx, keys) ==
    IF idx = {} THEN {<<>>}
    ELSE LET least == {a \in idx : \A b \in idx : keys[a] <= keys[b]}
         IN  UNION {{<<d[a]>> \o rest : rest \in SortedOrders(d, idx \ {a}, keys)} :
                      a \in least}

\* Faulty variant: the sorted frame is not assigned back.
SortValuesDiscarded(d, col) == {d}

\* The value a row is compared by under sort_values(col).
SortKey(r, col) == IF col = "time" THEN r.time ELSE NameRank[r.city]

SortValues(d, col) ==
    SortedOrders(d, DOMAIN d, [n \in DOMAIN d |-> SortKey(d[n], col)])

\* Faulty variant: head(1) instead of tail(1).
IsGroupHead(d, n) == \A m \in DOMAIN d : m < n => d[m].city # d[n].city

\* groupby("city").tail(1): the last row of every city, in frame order.
IsGroupTail(d, n) == \A m \in DOMAIN d : m > n => d[m].city # d[n].city

GroupTail(d) ==
    LET F[n \in 0..Len(d)] ==
          IF n = 0 THEN <<>>
          ELSE IF IsGroupTail(d, n) THEN Append(F[n - 1], d[n]) ELSE F[n - 1]
    IN  F[Len(d)]

\* df.sort_values("time").groupby("city", as_index=False).tail(1)
\*   .sort_values("city")
LatestRows(d) ==
    UNION {SortValues(GroupTail(s), "city") : s \in SortValues(d, "time")}

NUnique(d) == Cardinality({d[n].city : n \in DOMAIN d})

\* Faulty variants: every returned frame is kept; an empty frame is
\* reported like a failure.
CollectAll(dfs, rows) == Append(dfs, rows)

WarnOnEmpty(ws, city, err, rows) ==
    IF err # NoError \/ rows = <<>>
    THEN Append(ws, [city |-> city, e |-> err]) ELSE ws

\* Body of the try block after the call returned: keep a non-empty frame.
Collect(dfs, rows) == IF rows # <<>> THEN Append(dfs, rows) ELSE dfs

\* The except block: one st.error naming the city and the exception.
Warn(ws, city, err, rows) ==
    IF err # NoError THEN Append(ws, [city |-> city, e |-> err]) ELSE ws

\* ------------------------------------------------------------------ state
VARIABLES
    scope,            \* the cities and time windows of this session
    now,              \* wall clock, seconds
    cache,            \* entries of the st.cache_data store
    pc,               \* where the script is: idle, fetching, stopped, failed, derived
    selected_cities,  \* widget values of the current run
    days_back,
    refresh,
    pos,              \* position of the fetch loop in selected_cities
    all_dfs,
    warnings,         \* st.error messages of the fetch loop, in order
    df,
    num_cities,
    num_records,
    latest_rows,
    calls,            \* history: what each call of the current run did
    cleared           \* history: what the last clear() dropped, per key not
                      \* requested since

vars == <<scope, now, cache, pc, selected_cities, days_back, refresh, pos,
          all_dfs, warnings, df, num_cities, num_records, latest_rows, calls,
          cleared>>

runOutputs == <<all_dfs, warnings, df, num_cities, num_records, latest_rows>>

Init ==
    /\ scope \in Scopes
    /\ now = 0
    /\ cache = {}
    /\ pc = "idle"
    /\ selected_cities = <<>>
    /\ days_back = 0
    /\ refresh = FALSE
    /\ pos = 1
    /\ all_dfs = <<>>
    /\ warnings = <<>>
    /\ df = <<>>
    /\ num_cities = 0
    /\ num_records = 0
    /\ latest_rows = <<>>
    /\ calls = <<>>
    /\ cleared = {}

\* Time passes.
Tick ==
    /\ ~scope.detail
    /\ now + TTL \div 2 <= MaxClock
    /\ now' = now + TTL \div 2
    /\ UNCHANGED <<scope, cache, pc, selected_cities, days_back, refresh, pos,
                   runOutputs, calls, cleared>>

Resting == pc \in {"idle", "stopped", "failed", "derived"}

\* The script starts over with fresh variables.
FreshRun ==
    /\ pos' = 1
    /\ all_dfs' = <<>> /\ warnings' = <<>> /\ df' = <<>>
    /\ num_cities' = 0 /\ num_records' = 0 /\ latest_rows' = <<>>
    /\ calls' = <<>>

\* A rerun whose selection is empty: the warning, then st.stop().
StartEmpty(d, press) ==
    /\ Resting
    /\ scope.detail => press
    /\ selected_cities' = <<>>
    /\ days_back' = d
    /\ refresh' = press
    /\ pc' = "stopped"
    /\ FreshRun
    /\ UNCHANGED <<scope, now, cache, cleared>>

\* What clear() drops for key k at time t.
Dropped(c, k, t) ==
    IF \E e \in c : e.key = k /\ t - e.createdAt < TTL THEN "live"
    ELSE IF \E e \in c : e.key = k THEN "expired"
    ELSE "nothing"

\* A rerun with a selection: the script runs up to the fetch loop,
\* clearing the cache on the way if the button was clicked.
StartRun(sel, d, press) ==
    /\ Resting
    /\ scope.detail => press
    /\ sel # <<>>
    /\ selected_cities' = sel
    /\ days_back' = d
    /\ refresh' = press
    /\ cache' = IF press THEN Clear(cache) ELSE cache
    /\ cleared' = IF press
                  THEN {[key |-> CacheKey(c, w), had |-> Dropped(cache, CacheKey(c, w), now)] :
                          c \in scope.cities, w \in scope.days}
                  ELSE cleared
    /\ pc' = "fetching"
    /\ FreshRun
    /\ UNCHANGED <<scope, now>>

\* One iteration of the fetch loop.
FetchStep(resp) ==
    /\ pc = "fetching"
    /\ pos <= Len(selected_cities)
    /\ LET city == selected_cities[pos]
           k    == CacheKey(city, days_back)
           r    == GetOrFetch(cache, city, days_back, now, resp)
           held == {e \in cache : e.key = k}
           drop == {x \in cleared : x.key = k}
       IN  /\ cache' = r.cache
           /\ all_dfs' = IF r.err = NoError THEN Collect(all_dfs, r.rows) ELSE all_dfs
           /\ warnings' = Warn(warnings, city, r.err, r.rows)
           /\ calls' = Append(calls,
                  [city |-> city, at |-> now, networked |-> r.networked,
                   err |-> r.err, rows |-> r.rows,
                   age |-> IF held = {} THEN -1
                           ELSE now - (CHOOSE e \in held : TRUE).createdAt,
                   cleared |-> IF drop = {} THEN "no"
                               ELSE (CHOOSE x \in drop : TRUE).had])
           /\ cleared' = cleared \ drop
    /\ pos' = pos + 1
    /\ UNCHANGED <<scope, now, pc, selected_cities, days_back, refresh, df,
                   num_cities, num_records, latest_rows>>

\* The no-data guard: the error, then st.stop().
NoData ==
    /\ pc = "fetching"
    /\ pos > Len(selected_cities)
    /\ all_dfs = <<>>
    /\ pc' = "failed"
    /\ UNCHANGED <<scope, now, cache, selected_cities, days_back, refresh, pos,
                   runOutputs, calls, cleared>>

\* Merge, metrics and the latest snapshot.
Aggregate ==
    /\ pc = "fetching"
    /\ pos > Len(selected_cities)
    /\ all_dfs # <<>>
    /\ \E sorted \in SortValues(Concat(all_dfs), "time") :
         /\ df' = sorted
         /\ num_cities' = NUnique(sorted)
         /\ num_records' = Len(sorted)
         /\ \E l \in LatestRows(sorted) : latest_rows' = l
    /\ pc' = "derived"
    /\ UNCHANGED <<scope, now, cache, selected_cities, days_back, refresh, pos,
                   all_dfs, warnings, calls, cleared>>

Next ==
    \/ Tick
    \/ \E d \in scope.days, press \in BOOLEAN : StartEmpty(d, press)
    \/ \E sel \in Selections(scope.cities), d \in scope.days, press \in BOOLEAN :
         StartRun(sel, d, press)
    \/ \E resp \in HttpResponses(scope.detail) : FetchStep(resp)
    \/ NoData
    \/ Aggregate

Spec == Init /\ [][Next]_vars

\* --------------------------------------------------------------- cache claims
Last(s) == s[Len(s)]

\* The step taken is one call of the cached function, for key CurKey.
Calling == pc = "fetching" /\ pos <= Len(selected_cities) /\ pos' = pos + 1
CurKey == CacheKey(selected_cities[pos], days_back)

EntriesOf(c, k) == {e \in c : e.key = k}

\* C1: a call made less than 300 seconds after the key's entry was stored
\* (no clear in between, so the entry is still held) is answered with the
\* stored value, issues no network call and leaves the cache as it was.
C1_HitWithinTTL ==
    [][\A e \in cache :
         (Calling /\ e.key = CurKey /\ now < e.createdAt + 300)
            => /\ ~Last(calls').networked
               /\ Last(calls').err = NoError
               /\ Last(calls').rows = e.value
               /\ cache' = cache]_vars

\* A call of this run was answered from an entry stored 150 seconds earlier.
C1_Witness ==
    \E n \in DOMAIN calls :
        /\ ~calls[n].networked
        /\ calls[n].age = 150
        /\ calls[n].rows # <<>>

\* C2: a call made 300 seconds or more after the key's entry was stored
\* issues a network call, and on success the key's entry is exactly the fresh
\* result stamped with the time of the call; no key ever has two entries.
C2_ExpiryRefetches ==
    /\ [](\A k \in Keys : Cardinality(EntriesOf(cache, k)) <= 1)
    /\ [][\A e \in cache :
            (Calling /\ e.key = CurKey /\ now >= e.createdAt + 300)
               => /\ Last(calls').networked
                  /\ Last(calls').err = NoError =>
                        EntriesOf(cache', CurKey) =
                          {[key |-> CurKey, value |-> Last(calls').rows,
                            createdAt |-> now]}]_vars

\* A key whose entry was exactly 300 seconds old was fetched again and holds
\* the entry stored by that call.
C2_Witness ==
    \E n \in DOMAIN calls :
        /\ calls[n].networked
        /\ calls[n].age = 300
        /\ calls[n].err = NoError
        /\ calls[n].rows # <<>>
        /\ \E e \in cache : e.key = CacheKey(calls[n].city, days_back)
                            /\ e.createdAt = calls[n].at

\* C3: clear() leaves the cache without any entry, and the first call for a
\* key after a clear() issues a network call, whatever the clear() dropped
\* for that key.
C3_ClearThenRefetch ==
    /\ [][(Resting /\ pc' = "fetching" /\ refresh') => cache' = {}]_vars
    /\ [](\A n \in DOMAIN calls : calls[n].cleared # "no" => calls[n].networked)

\* A key whose entry was still live when it was cleared has been fetched
\* again over the network.
C3_Witness ==
    \E n \in DOMAIN calls :
        /\ calls[n].cleared = "live"
        /\ calls[n].networked
        /\ calls[n].err = NoError

\* C4: when the wrapped function raises, the caller gets the exception (it
\* shows as the city's warning), the cache is left exactly as it was, and
\* the key has no servable entry afterwards, so its next call goes to the
\* network again.
C4_ErrorNotCached ==
    /\ [][(Calling /\ Last(calls').err # NoError)
            => /\ cache' = cache
               /\ warnings' = Append(warnings,
                     [city |-> selected_cities[pos], e |-> Last(calls').err])]_vars
    /\ [](\A n \in DOMAIN calls :
            calls[n].err # NoError =>
                /\ calls[n].networked
                /\ \A e \in EntriesOf(cache, CacheKey(calls[n].city, days_back)) :
                      now >= e.createdAt + 300)

\* The fetch for a key failed while the key's expired entry and another
\* key's entry were in the cache; both are still there.
C4_Witness ==
    \E n \in DOMAIN calls :
        /\ calls[n].err # NoError
        /\ calls[n].age >= 300
        /\ EntriesOf(cache, CacheKey(calls[n].city, days_back)) # {}
        /\ \E e \in cache : e.key # CacheKey(calls[n].city, days_back)

\* C8: a run started with the refresh button clicked has an empty cache
\* before its first call, whatever the selection, the empty one included.
C8_RefreshAlwaysInvalidates ==
    (refresh /\ pc \in {"stopped", "fetching"} /\ calls = <<>>) => cache = {}

\* ---------------------------------------------------------- aggregator claims
Finished == pc \in {"failed", "derived"}

\* The calls of the run that returned a non-empty frame; those that raised.
Good == {n \in DOMAIN calls : calls[n].err = NoError /\ calls[n].rows # <<>>}
Bad == {n \in DOMAIN calls : calls[n].err # NoError}

Count(s, x) == Cardinality({n \in DOMAIN s : s[n] = x})

RECURSIVE SumLen(_)
SumLen(S) ==
    IF S = {} THEN 0
    ELSE LET n == CHOOSE m \in S : TRUE
         IN  Len(calls[n].rows) + SumLen(S \ {n})

\* C5: a finished run in which some city returned data has succeeded; it
\* shows exactly one warning for each city whose call raised and none for
\* any other city, and the merged frame has no row of a city whose call
\* raised.
C5_PartialFailure ==
    (Finished /\ Good # {}) =>
        /\ pc = "derived"
        /\ \A n \in DOMAIN calls :
              Cardinality({w \in DOMAIN warnings : warnings[w].city = calls[n].city})
                 = IF n \in Bad THEN 1 ELSE 0
        /\ Len(warnings) = Cardinality(Bad)
        /\ \A m \in DOMAIN df : \A n \in Bad : df[m].city # calls[n].city

\* A run succeeded although the call for one of its cities raised.
C5_Witness ==
    /\ pc = "derived"
    /\ Bad # {}
    /\ Len(warnings) = 1
    /\ df # <<>>

\* C6: a finished run has failed exactly when every call raised or returned
\* an empty frame, and a failed run has produced no merged frame, no metric
\* and no snapshot.
C6_TotalFailure ==
    Finished =>
        /\ pc = "failed" <=> Good = {}
        /\ pc = "failed" =>
              /\ Len(calls) = Len(selected_cities)
              /\ selected_cities # <<>>
              /\ df = <<>> /\ latest_rows = <<>>
              /\ num_cities = 0 /\ num_records = 0

\* A two-city run failed with one call raising and the other returning an
\* empty frame.
C6_Witness ==
    /\ pc = "failed"
    /\ Len(calls) = 2
    /\ Bad # {}
    /\ \E n \in DOMAIN calls : calls[n].err = NoError /\ calls[n].rows = <<>>

\* C7: the merged frame of a successful run holds every row of every
\* non-empty returned frame exactly once and nothing else, in non-decreasing
\* time order; the record count and the city count agree with that.
C7_MergedExactlySorted ==
    pc = "derived" =>
        /\ \A n \in Good : \A r \in DOMAIN calls[n].rows :
              Count(df, calls[n].rows[r]) = 1
        /\ \A m \in DOMAIN df : \E n \in Good : \E r \in DOMAIN calls[n].rows :
              df[m] = calls[n].rows[r]
        /\ Len(df) = SumLen(Good)
        /\ num_records = SumLen(Good)
        /\ num_cities = Cardinality(Good)
        /\ \A a, b \in DOMAIN df : a < b => df[a].time <= df[b].time

\* Two cities returned data and the rows had to be reordered: the first
\* fetched city's last row is later than the second city's first row.
C7_Witness ==
    /\ pc = "derived"
    /\ Cardinality(Good) = 2
    /\ Len(df) >= 3
    /\ df # Concat(all_dfs)

\* C9: the snapshot of a successful run has exactly one row per city of the
\* merged frame and no other row, and a city's row is a row of the merged
\* frame with the largest time among that city's rows.
C9_LatestSnapshot ==
    pc = "derived" =>
        /\ {latest_rows[n].city : n \in DOMAIN latest_rows}
              = {df[m].city : m \in DOMAIN df}
        /\ \A a, b \in DOMAIN latest_rows :
              a # b => latest_rows[a].city # latest_rows[b].city
        /\ \A n \in DOMAIN latest_rows :
              /\ \E m \in DOMAIN df : df[m] = latest_rows[n]
              /\ \A m \in DOMAIN df :
                    df[m].city = latest_rows[n].city
                       => df[m].time <= latest_rows[n].time

\* A city's snapshot row is its latest row although an earlier row of the
\* city was hotter.
C9_Witness ==
    /\ pc = "derived"
    /\ \E n \in DOMAIN latest_rows : \E m \in DOMAIN df :
          /\ df[m].city = latest_rows[n].city
          /\ df[m].time < latest_rows[n].time
          /\ df[m].temp > latest_rows[n].temp

\* C10: in the merged frame, rows of different cities with the same time are
\* in ascending order of city name.
C10_TiesByCityName ==
    pc = "derived" =>
        \A a, b \in DOMAIN df :
            (a < b /\ df[a].time = df[b].time /\ df[a].city # df[b].city)
               => NameRank[df[a].city] < NameRank[df[b].city]

TypeOK ==
    /\ now \in 0..MaxClock
    /\ pc \in {"idle", "stopped", "fetching", "failed", "derived"}
    /\ selected_cities \in Selections(Cities)
    /\ days_back \in DaysOptions
    /\ \A e \in cache : e.key \in Keys
====
